---- MODULE Spec2Model ----
(***************************************************************************)
(* Discord::Gateway (Gateway.cpp): the session controller.                 *)
(*                                                                         *)
(* Every method of Gateway::Impl runs under the recursive mutex and gives  *)
(* the mutex up only where the code calls lock.unlock(): while it awaits a *)
(* transport future, the hello promise or the close promise, and while a   *)
(* diagnostic or close callback runs.  An action of this module is the     *)
(* code one thread executes between two such points, so the mutex is free  *)
(* between any two actions.  A close handler that the stream runs inside   *)
(* WebSocket::Close(code) executes on the calling thread, which still owns *)
(* the mutex; it is part of the calling action (SyncClose).                *)
(***************************************************************************)
EXTENDS Integers, Sequences, FiniteSets, TLC

\* ----------------------------------------------------------------- bounds
MaxOps == 5
MaxConnects == 2
MaxRejected == 1
MaxSockets == 2
MaxTime == 1

\* ------------------------------------------------------ program constants
webSocketEndpointSuffix == "/?v=6&encoding=json"
GetGatewayUri == "https://discordapp.com/api/v6/gateway"
StatusOk == 200
StatusCancelled == 499
CloseNormal == 1000
CloseNoAck == 4000
MillisecondsPerSecond == 1000

\* ------------------------------------------------------------ input sets
Urls == {"wss://a", "wss://b"}
Statuses == {200, 404}
Bodies ==
    {[kind |-> "object", url |-> u] : u \in Urls \cup {""}}
    \cup {[kind |-> k, url |-> ""] :
            k \in {"invalid", "not_object", "no_url", "url_not_string"}}
HelloIntervalsMs == {1000}
Schedulers == {1}
\* `s' is the sequence number a message carries, 0 when it carries none.
Messages ==
    {[kind |-> "object", op |-> o, ms |-> 0, s |-> 0] : o \in {1, 11}}
    \cup {[kind |-> "object", op |-> 7, ms |-> 0, s |-> 1]}
    \cup {[kind |-> "object", op |-> 10, ms |-> i, s |-> 0] :
                i \in HelloIntervalsMs}
    \cup {[kind |-> "text", op |-> 0, ms |-> 0, s |-> 0]}

VARIABLES impl, conn, sockets, sched, thr, hist

vars == <<impl, conn, sockets, sched, thr, hist>>

\* The whole state as one value, so that the code of a method can be written
\* as the composition of its statements.
World ==
    [impl |-> impl, conn |-> conn, sockets |-> sockets, sched |-> sched,
     thr |-> thr, hist |-> hist]

Commit(w) ==
    /\ impl' = w.impl
    /\ conn' = w.conn
    /\ sockets' = w.sockets
    /\ sched' = w.sched
    /\ thr' = w.thr
    /\ hist' = w.hist

Threads == {"W", "D", "T", "S", "R"}

NoMessage == [kind |-> "", op |-> 0, ms |-> 0, s |-> 0]

IdleThread == [pc |-> "idle", sample |-> 0, level |-> 0, event |-> 0,
               gate |-> "null", sock |-> 0, msg |-> NoMessage, local |-> <<>>]

Response(status, body, sock) ==
    [state |-> "done", status |-> status, body |-> body, sock |-> sock]

Request(state) ==
    [state |-> state, status |-> 0, body |-> [kind |-> "", url |-> ""],
     sock |-> 0]

IdentifyFrame == [op |-> 2, null |-> FALSE, d |-> 0]

NewSocket ==
    [registered |-> FALSE, closeCode |-> 0, closeDelivered |-> FALSE,
     textSent |-> <<>>]

\* The controller as its constructor leaves it (lines 517-537), no request
\* at the transport, no stream, the clock at zero.
Constructed ==
    [impl |-> [awaitingHello |-> FALSE,
               disconnect |-> FALSE,
               cancelCurrentOperation |-> "null",
               closed |-> FALSE,
               closePromise |-> FALSE,
               connecting |-> FALSE,
               heartbeatAckReceived |-> FALSE,
               heartbeatInterval |-> 0,
               heartbeatSchedulerToken |-> 0,
               helloPromise |-> FALSE,
               onClose |-> 0,
               onDiagnosticMessage |-> 0,
               proceedWithConnect |-> "null",
               lastSequenceNumber |-> 0,
               nextHeartbeatTime |-> 0,
               receivedSequenceNumber |-> FALSE,
               scheduler |-> 0,
               storedDiagnosticMessages |-> <<>>,
               webSocket |-> 0,
               webSocketEndpoint |-> ""],
     conn |-> [res |-> Request("none"), wsr |-> Request("none")],
     sockets |-> <<>>,
     sched |-> [now |-> 0, pending |-> {}],
     thr |-> [t \in Threads |-> IdleThread],
     hist |-> [accepted |-> 0,
               rejected |-> 0,
               result |-> "none",
               reqs |-> <<>>,
               openOk |-> FALSE,
               openSock |-> 0,
               prevOpenOk |-> FALSE,
               lastOkUri |-> "",
               prevOkUri |-> "",
               reqsAtDisc |-> 0,
               lastOpenFailed |-> FALSE,
               prevOpenFailed |-> FALSE,
               cacheAtAccept |-> "",
               discAt |-> "none",
               helloFrom |-> 0,
               helloOn |-> 0,
               ackTimeout |-> FALSE,
               staleTick |-> FALSE,
               staleFired |-> FALSE,
               hbAtTimeout |-> 0,
               helloLen |-> 0,
               helloHbOn |-> 0,
               helloHbDue |-> 0,
               disconnects |-> 0,
               closedBeforeDisc |-> FALSE,
               lastS |-> 0,
               helloDropped |-> FALSE,
               closeDiagnosed |-> FALSE,
               okUris |-> {},
               schedulerSets |-> 0,
               numbered |-> FALSE,
               produced |-> 0,
               producedAtRegistration |-> 0,
               delivered |-> <<>>,
               identifyOn |-> 0,
               closeCalls |-> <<>>,
               transitions |-> 0,
               lockedCalls |-> FALSE,
               ops |-> 0,
               threw |-> FALSE,
               helloSetTwice |-> FALSE,
               crashed |-> FALSE]]

Init ==
    /\ impl = Constructed.impl
    /\ conn = Constructed.conn
    /\ sockets = Constructed.sockets
    /\ sched = Constructed.sched
    /\ thr = Constructed.thr
    /\ hist = Constructed.hist

\* ---------------------------------------------------------------- helpers
Crash(w) == [w EXCEPT !.hist.crashed = TRUE]

Throw(w, t) == [w EXCEPT !.hist.threw = TRUE, !.thr[t] = IdleThread]

Return(w, t) == [w EXCEPT !.thr[t] = IdleThread]

LastReq(w) == w.hist.reqs[Len(w.hist.reqs)]

Answered(w, resp) ==
    [w EXCEPT !.hist.reqs[Len(w.hist.reqs)].resp = resp]

MarkCancelled(w) ==
    IF Len(w.hist.reqs) > 0 /\ LastReq(w).resp = "pending"
    THEN [w EXCEPT !.hist.reqs[Len(w.hist.reqs)].cancelled = TRUE]
    ELSE w

\* ------------------------------------------------ NotifyDiagnosticMessage
\* struct DiagnosticMessage; `event' numbers the calls of
\* NotifyDiagnosticMessage in the order they are made.
DiagnosticMessage(level, event) == [level |-> level, event |-> event]

\* The number of the next call of NotifyDiagnosticMessage, in the behaviours
\* that number the calls (0 in the others).
NextEvent(w) == IF w.hist.numbered THEN w.hist.produced + 1 ELSE 0

\* The sink has been called with these events.
Delivered(w, events) ==
    IF w.hist.numbered
    THEN [w EXCEPT !.hist.delivered = @ \o events]
    ELSE w

\* The sample of the sink is taken and the mutex given up (lines 783-784);
\* the thread goes on at `next'.
NotifyBegin(w, t, level, next) ==
    [w EXCEPT !.thr[t].sample = w.impl.onDiagnosticMessage,
              !.thr[t].level = level,
              !.thr[t].event = NextEvent(w),
              !.thr[t].pc = next,
              !.hist.produced = NextEvent(w)]

\* Lines 785-797: with no sink sampled the message is stored under the mutex,
\* otherwise the sampled sink has been called and the mutex is taken again.
NotifyEnd(w, t) ==
    IF w.thr[t].sample = 0
    THEN [w EXCEPT !.impl.storedDiagnosticMessages =
                        Append(@, DiagnosticMessage(w.thr[t].level,
                                                    w.thr[t].event))]
    ELSE Delivered(w, <<w.thr[t].event>>)

\* NotifyDiagnosticMessage run by a thread that holds the mutex twice: its
\* unlock leaves the mutex owned, nothing interleaves.
NotifyDiagnosticMessage(w, level) ==
    IF w.impl.onDiagnosticMessage = 0
    THEN [w EXCEPT !.impl.storedDiagnosticMessages =
                        Append(@, DiagnosticMessage(level, NextEvent(w))),
                   !.hist.produced = NextEvent(w)]
    ELSE Delivered([w EXCEPT !.hist.produced = NextEvent(w)],
                   <<NextEvent(w)>>)

\* ------------------------------------------------------------ the worker
ConnectAsyncReturn(w, connected) ==
    [w EXCEPT !.impl.connecting = FALSE,
              !.hist.result = IF connected THEN "true" ELSE "false",
              !.thr["W"] = IdleThread]

QueueWebSocketRequest(w, next) ==
    [w EXCEPT !.conn.wsr = Request("pending"),
              !.impl.cancelCurrentOperation = "websocket",
              !.thr["W"].pc = next,
              !.hist.reqs = Append(@,
                  [kind |-> "OPEN",
                   uri |-> w.impl.webSocketEndpoint \o webSocketEndpointSuffix,
                   resp |-> "pending", cancelled |-> FALSE])]

QueueResourceRequest(w, next) ==
    [w EXCEPT !.conn.res = Request("pending"),
              !.impl.cancelCurrentOperation = "resource",
              !.thr["W"].pc = next,
              !.hist.reqs = Append(@,
                  [kind |-> "GET", uri |-> GetGatewayUri,
                   resp |-> "pending", cancelled |-> FALSE])]

\* The transport answered the open with no stream, of its own accord.
OpenFailed(w) == w.conn.wsr.sock = 0 /\ ~LastReq(w).cancelled

\* Lines 607-610: the answer is not a 200 whose body is a JSON object with
\* a string url.
BadDiscovery(r) == r.status # StatusOk \/ r.body.kind # "object"

\* The value AwaitWebSocketRequest returns once the future is ready.
AwaitWebSocketRequestResult(w) ==
    IF w.impl.disconnect THEN 0 ELSE w.conn.wsr.sock

\* The status AwaitResourceRequest returns once the future is ready.
AwaitResourceRequestStatus(w) ==
    IF w.impl.disconnect THEN StatusCancelled ELSE w.conn.res.status

\* Json::Value::FromEncoding(body)["url"] read as a string.
ParseUrl(body) ==
    IF body.kind = "object" THEN body.url ELSE ""

GetGatewayResultAnyStatus(w) ==
    IF w.impl.disconnect THEN "" ELSE ParseUrl(w.conn.res.body)

\* Lines 596-610, from the answer on.
GetGatewayResult(w) ==
    IF AwaitResourceRequestStatus(w) # StatusOk
    THEN ""
    ELSE ParseUrl(w.conn.res.body)

\* Lines 668-671 and 541-545: expect a hello, install the handlers, publish
\* the cancel-callable and wait for the hello promise.
AwaitHello(w) ==
    LET s == w.impl.webSocket IN
    [w EXCEPT !.impl.awaitingHello = TRUE,
              !.impl.helloPromise = FALSE,
              !.sockets[s].registered = TRUE,
              !.impl.cancelCurrentOperation = "hello",
              !.hist.openOk = TRUE,
              !.hist.openSock = s,
              !.hist.lastOkUri = LastReq(w).uri,
              !.hist.okUris = @ \cup {LastReq(w).uri},
              !.thr["W"].pc = "hello"]

DiscoverUnchecked(w) == QueueResourceRequest(w, "get")

\* Lines 640-650 up to the request: discovery.
Discover(w) ==
    IF w.impl.disconnect
    THEN ConnectAsyncReturn([w EXCEPT !.impl.webSocketEndpoint = ""], FALSE)
    ELSE QueueResourceRequest(w, "get")

OpenCachedIgnoringCache(w) == Discover(w)

\* Lines 627-640 up to the request: the open on the cached URL.
OpenCached(w) ==
    IF w.impl.webSocketEndpoint # ""
    THEN IF w.impl.disconnect
         THEN Discover([w EXCEPT !.impl.webSocket = 0])
         ELSE QueueWebSocketRequest(w, "open1")
    ELSE Discover(w)

\* Lines 652-657 up to the request: the open on the discovered URL.
OpenDiscovered(w) ==
    IF w.impl.disconnect
    THEN ConnectAsyncReturn([w EXCEPT !.impl.webSocket = 0], FALSE)
    ELSE QueueWebSocketRequest(w, "open2")

\* Lines 618-625: the WaitBeforeConnect gate.
CompleteConnectStart(w) ==
    IF w.impl.proceedWithConnect # "null"
    THEN [w EXCEPT !.thr["W"].gate = w.impl.proceedWithConnect,
                   !.impl.proceedWithConnect = "null",
                   !.thr["W"].pc = "gate"]
    ELSE OpenCached(w)

CompleteConnectOpen1NoFallback(w) ==
    LET sock == AwaitWebSocketRequestResult(w)
        w1 == Answered(
                [w EXCEPT !.impl.cancelCurrentOperation = "null",
                          !.impl.webSocket = sock,
                          !.conn.wsr = Request("none"),
                          !.hist.lastOpenFailed = OpenFailed(w)],
                IF w.conn.wsr.sock = 0 THEN "no_stream" ELSE "stream")
    IN  IF sock = 0 THEN ConnectAsyncReturn(w1, FALSE) ELSE AwaitHello(w1)

\* Lines 582-588 and 631-640: the answer to the open on the cached URL.
CompleteConnectOpen1(w) ==
    LET sock == AwaitWebSocketRequestResult(w)
        w1 == Answered(
                [w EXCEPT !.impl.cancelCurrentOperation = "null",
                          !.impl.webSocket = sock,
                          !.conn.wsr = Request("none"),
                          !.hist.lastOpenFailed = OpenFailed(w)],
                IF w.conn.wsr.sock = 0 THEN "no_stream" ELSE "stream")
    IN  IF sock = 0 THEN Discover(w1) ELSE AwaitHello(w1)

\* Lines 562-568, 607-610 and 643-657: the answer to the discovery request.
CompleteConnectGet(w) ==
    LET url == GetGatewayResult(w)
        w1 == Answered(
                [w EXCEPT !.impl.cancelCurrentOperation = "null",
                          !.impl.webSocketEndpoint = url,
                          !.conn.res = Request("none")],
                IF BadDiscovery(w.conn.res) THEN "bad"
                ELSE IF ParseUrl(w.conn.res.body) = "" THEN "empty"
                ELSE "url")
    IN  IF url = "" THEN ConnectAsyncReturn(w1, FALSE) ELSE OpenDiscovered(w1)

CompleteConnectOpen2Rediscovers(w) ==
    LET sock == AwaitWebSocketRequestResult(w)
        w1 == Answered(
                [w EXCEPT !.impl.cancelCurrentOperation = "null",
                          !.impl.webSocket = sock,
                          !.conn.wsr = Request("none"),
                          !.hist.lastOpenFailed = OpenFailed(w)],
                IF w.conn.wsr.sock = 0 THEN "no_stream" ELSE "stream")
    IN  IF sock = 0 THEN Discover(w1) ELSE AwaitHello(w1)

\* Lines 582-588 and 653-663: the answer to the open on the discovered URL.
CompleteConnectOpen2(w) ==
    LET sock == AwaitWebSocketRequestResult(w)
        w1 == Answered(
                [w EXCEPT !.impl.cancelCurrentOperation = "null",
                          !.impl.webSocket = sock,
                          !.conn.wsr = Request("none"),
                          !.hist.lastOpenFailed = OpenFailed(w)],
                IF w.conn.wsr.sock = 0 THEN "no_stream" ELSE "stream")
    IN  IF sock = 0 THEN ConnectAsyncReturn(w1, FALSE) ELSE AwaitHello(w1)

\* Lines 547-548, 672-677 and 1073: the hello promise is satisfied.
CompleteConnectHello(w) ==
    LET w1 == [w EXCEPT !.impl.cancelCurrentOperation = "null"] IN
    IF w1.impl.disconnect
    THEN ConnectAsyncReturn(w1, FALSE)
    ELSE NotifyBegin(w1, "W", 0, "identify")

SendIdentifyNothing(w) ==
    NotifyBegin(NotifyEnd(w, "W"), "W", 1, "connected")

\* Lines 1074-1086 and 687: the identify frame goes out on webSocket.
SendIdentify(w) ==
    LET w1 == NotifyEnd(w, "W")
        s == w1.impl.webSocket
    IN  IF s = 0
        THEN Crash(w1)
        ELSE NotifyBegin(
                [w1 EXCEPT !.sockets[s].textSent = Append(@, IdentifyFrame),
                           !.hist.identifyOn = s],
                "W", 1, "connected")

\* Lines 687-692 and 736-737.
CompleteConnectReturn(w) ==
    ConnectAsyncReturn(NotifyEnd(w, "W"), TRUE)

\* Lines 706-708: the future that is already false.
ConnectRejected(w) == [w EXCEPT !.hist.rejected = @ + 1]

\* Lines 710-723.
ConnectAccepted(w) ==
         [w EXCEPT !.impl.closed = FALSE,
                   !.impl.closePromise = FALSE,
                   !.impl.connecting = TRUE,
                   !.impl.disconnect = FALSE,
                   !.thr["W"] = [IdleThread EXCEPT !.pc = "start"],
                   !.hist.accepted = @ + 1,
                   !.hist.result = "pending",
                   !.hist.reqs = <<>>,
                   !.hist.prevOpenOk = w.hist.openOk,
                   !.hist.openOk = FALSE,
                   !.hist.openSock = 0,
                   !.hist.reqsAtDisc = 0,
                   !.hist.prevOpenFailed = w.hist.lastOpenFailed,
                   !.hist.cacheAtAccept = w.impl.webSocketEndpoint,
                   !.hist.prevOkUri = w.hist.lastOkUri,
                   !.hist.discAt = "none",
                   !.hist.helloFrom = 0,
                   !.hist.helloOn = 0,
                   !.hist.ackTimeout = FALSE,
                   !.hist.hbAtTimeout = 0,
                   !.hist.helloLen = 0,
                   !.hist.identifyOn = 0]

ConnectWhileConnecting(w) ==
    IF w.impl.scheduler = 0 \/ w.impl.webSocket # 0
    THEN ConnectRejected(w)
    ELSE ConnectAccepted(w)

\* Gateway::Impl::Connect, lines 695-724.
Connect(w) ==
    IF \/ w.impl.scheduler = 0
       \/ w.impl.webSocket # 0
       \/ w.impl.connecting
    THEN ConnectRejected(w)
    ELSE ConnectAccepted(w)

\* Gateway::Impl::WaitBeforeConnect, lines 1104-1108.
WaitBeforeConnect(w) ==
    [w EXCEPT !.impl.proceedWithConnect = "pending"]

\* -------------------------------------------------------------- heartbeat
PendingTokens(w) == {p.token : p \in w.sched.pending}

\* Timekeeping::Scheduler::Schedule hands out a token that is not in use.
FreshToken(w) ==
    CHOOSE n \in 1..(Cardinality(w.sched.pending) + 1) :
        /\ n \notin PendingTokens(w)
        /\ \A m \in 1..(n - 1) : m \in PendingTokens(w)

\* Lines 1093-1102.
UnscheduleHeartbeat(w) ==
    IF w.impl.scheduler = 0 \/ w.impl.heartbeatSchedulerToken = 0
    THEN w
    ELSE [w EXCEPT !.sched.pending =
                     {p \in @ : p.token # w.impl.heartbeatSchedulerToken},
                   !.impl.heartbeatSchedulerToken = 0]

\* Lines 1005-1026.
ScheduleHeartbeat(w) ==
    IF \/ w.impl.scheduler = 0
       \/ w.impl.webSocket = 0
       \/ w.impl.closed
       \/ w.impl.heartbeatSchedulerToken # 0
    THEN w
    ELSE [w EXCEPT !.impl.heartbeatSchedulerToken = FreshToken(w),
                   !.sched.pending = @ \cup
                       {[token |-> FreshToken(w),
                         at |-> w.impl.nextHeartbeatTime]}]

\* Lines 1034-1039: after the unscheduling, is the heartbeat given up?
SendHeartbeatSkips(w) == w.impl.webSocket = 0 \/ w.impl.closed

\* Lines 1030-1046, when the heartbeat is not given up.
SendHeartbeatBegin(w, t, next) ==
    NotifyBegin(
        [UnscheduleHeartbeat(w) EXCEPT !.impl.heartbeatAckReceived = FALSE],
        t, 0, next)

HeartbeatFrame(w) ==
    [op |-> 1,
     null |-> ~w.impl.receivedSequenceNumber,
     d |-> IF w.impl.receivedSequenceNumber
           THEN w.impl.lastSequenceNumber ELSE 0]

\* Lines 1060-1064.
NextHeartbeatTime(w) ==
    IF w.impl.nextHeartbeatTime + w.impl.heartbeatInterval <= w.sched.now
    THEN w.sched.now + w.impl.heartbeatInterval
    ELSE w.impl.nextHeartbeatTime + w.impl.heartbeatInterval

\* Lines 1046-1066, from the return of NotifyDiagnosticMessage on.
SendHeartbeatEnd(w, t) ==
    LET w1 == NotifyEnd(w, t)
        s == w1.impl.webSocket
        w2 == [w1 EXCEPT !.sockets[s].textSent = Append(@, HeartbeatFrame(w1))]
    IN  IF s = 0 THEN Crash(w1)
        ELSE IF w2.impl.heartbeatInterval = 0 THEN w2
        ELSE IF w2.impl.scheduler = 0 THEN Crash(w2)
        ELSE ScheduleHeartbeat(
                [w2 EXCEPT !.impl.nextHeartbeatTime = NextHeartbeatTime(w2)])

\* Gateway::SetScheduler, lines 1120-1125.
SetScheduler(w, s) ==
    ScheduleHeartbeat(
        [UnscheduleHeartbeat(w) EXCEPT !.impl.scheduler = s,
                                       !.hist.schedulerSets = @ + 1])

\* ---------------------------------------------------------- close funnel
\* Lines 769-776: the sample of the callback; its call is counted here.
NotifyCloseCalls(w) ==
    IF w.impl.onClose # 0
    THEN [w EXCEPT !.hist.closeCalls[w.impl.onClose] = @ + 1]
    ELSE w

\* closePromise.set_value() on a promise that is already satisfied throws.
ClosePromiseThrows(w) == w.impl.closePromise

\* Lines 801-809 on a thread that holds the mutex once.
OnCloseBegin(w, t) ==
    IF w.impl.closed
    THEN Return(w, t)
    ELSE NotifyBegin(
            [w EXCEPT !.impl.closed = TRUE,
                      !.hist.transitions = @ + 1,
                      !.hist.closeDiagnosed = FALSE,
                      !.hist.closeCalls = [i \in DOMAIN @ |-> 0]],
            t, 1, "close.diag")

\* Line 811.
OnCloseEnd(w, t) ==
    IF ClosePromiseThrows(w)
    THEN Throw(w, t)
    ELSE Return([w EXCEPT !.impl.closePromise = TRUE], t)

\* Lines 805-810, from the return of NotifyDiagnosticMessage on.
OnCloseNotify(w, t) ==
    LET w1 == [NotifyEnd(w, t) EXCEPT !.hist.closeDiagnosed = TRUE] IN
    IF w1.impl.onClose # 0
    THEN [NotifyCloseCalls(w1) EXCEPT !.thr[t].pc = "close.cb"]
    ELSE OnCloseEnd(w1, t)

\* Lines 947-954 and 800-812 run inside WebSocket::Close(code) by the thread
\* that called it: the mutex stays owned throughout.
OnCloseNested(w) ==
    IF w.impl.closed
    THEN w
    ELSE LET w1 == NotifyCloseCalls(NotifyDiagnosticMessage(
                    [w EXCEPT !.impl.closed = TRUE,
                              !.hist.transitions = @ + 1,
                              !.hist.closeCalls = [i \in DOMAIN @ |-> 0]],
                    1))
         IN  [w1 EXCEPT !.impl.closePromise = TRUE,
                        !.hist.closeDiagnosed = TRUE,
                        !.hist.lockedCalls =
                            @ \/ w1.impl.onClose # 0
                              \/ w1.impl.onDiagnosticMessage # 0]

OnCloseNestedThrows(w) == ~w.impl.closed /\ ClosePromiseThrows(w)

\* WebSocket::Close(code) on the stream the controller holds; `sync' tells
\* whether the stream runs its close handler before Close returns, as
\* MockWebSocket::Close does.
WebSocketClose(w, code, sync) ==
    LET s == w.impl.webSocket
        w1 == [w EXCEPT !.sockets[s].closeCode = IF @ = 0 THEN code ELSE @]
    IN  IF sync /\ w1.sockets[s].registered /\ ~w1.sockets[s].closeDelivered
        THEN OnCloseNested([w1 EXCEPT !.sockets[s].closeDelivered = TRUE])
        ELSE w1

WebSocketCloseThrows(w, sync) ==
    LET s == w.impl.webSocket IN
    /\ sync /\ w.sockets[s].registered /\ ~w.sockets[s].closeDelivered
    /\ OnCloseNestedThrows(w)

RegisterCloseCallbackInstallOnly(w) ==
    [w EXCEPT !.impl.onClose = Len(w.hist.closeCalls) + 1,
              !.hist.closeCalls = Append(@, 0)]

\* Lines 968-976.
RegisterCloseCallback(w) ==
    LET cb == Len(w.hist.closeCalls) + 1
        w1 == [w EXCEPT !.impl.onClose = cb,
                        !.hist.closeCalls = Append(@, 0)]
    IN  IF w1.impl.closed THEN NotifyCloseCalls(w1) ELSE w1

\* ------------------------------------------------------------ Disconnect
\* Lines 742-744: the published cancel-callable.
CancelCurrentOperation(w) ==
    CASE w.impl.cancelCurrentOperation = "resource" ->
            MarkCancelled(
                [w EXCEPT !.conn.res =
                    IF @.state = "pending" THEN Request("cancelled") ELSE @])
      [] w.impl.cancelCurrentOperation = "websocket" ->
            MarkCancelled(
                [w EXCEPT !.conn.wsr =
                    IF @.state = "pending" THEN Request("cancelled") ELSE @])
      [] w.impl.cancelCurrentOperation = "hello" ->
            [w EXCEPT !.impl.helloPromise = TRUE]
      [] OTHER -> w

\* helloPromise.set_value() on a promise that is already satisfied throws.
CancelThrows(w) ==
    w.impl.cancelCurrentOperation = "hello" /\ w.impl.helloPromise

DisconnectEndKeepsStream(w) ==
    Return([UnscheduleHeartbeat(w) EXCEPT !.impl.heartbeatInterval = 0], "D")

\* Lines 764-766.
DisconnectEnd(w) ==
    Return(
        [UnscheduleHeartbeat(w) EXCEPT !.impl.webSocket = 0,
                                       !.impl.heartbeatInterval = 0],
        "D")

\* Lines 740-749.
Disconnect(w, sync) ==
    LET w1 == [w EXCEPT !.impl.disconnect = TRUE,
                        !.hist.disconnects = @ + 1,
                        !.hist.closedBeforeDisc =
                            w.impl.closed /\ w.impl.webSocket # 0,
                        !.hist.discAt =
                            IF w.hist.result = "pending" /\ @ = "none"
                            THEN w.thr["W"].pc ELSE @,
                        !.hist.reqsAtDisc =
                            IF w.hist.result = "pending"
                               /\ w.hist.discAt = "none"
                            THEN Len(w.hist.reqs) ELSE @]
        w2 == CancelCurrentOperation(w1)
    IN  IF CancelThrows(w1)
        THEN Throw([w1 EXCEPT !.hist.helloSetTwice = TRUE], "D")
        ELSE IF w2.impl.webSocket = 0 THEN Return(w2, "D")
        ELSE IF WebSocketCloseThrows(w2, sync)
        THEN Throw(WebSocketClose(w2, CloseNormal, sync), "D")
        ELSE [WebSocketClose(w2, CloseNormal, sync) EXCEPT !.thr["D"].pc = "wait"]

\* Lines 750-763: the wait for the close promise ends, ready or timed out.
DisconnectWaited(w) ==
    IF w.impl.closePromise
    THEN DisconnectEnd(w)
    ELSE NotifyBegin(w, "D", 5, "timeout")

DisconnectTimedOut(w) == DisconnectEnd(NotifyEnd(w, "D"))

\* -------------------------------------------------------------- inbound
\* helloPromise.set_value() at line 890.
HelloSignal(w, t) ==
    IF w.impl.helloPromise
    THEN Throw([w EXCEPT !.hist.helloSetTwice = TRUE], t)
    ELSE Return([w EXCEPT !.impl.helloPromise = TRUE], t)

\* Lines 897-919.
OnTextBegin(w, s, m) ==
    LET w1 == [w EXCEPT !.thr["T"].sock = s, !.thr["T"].msg = m,
                        !.hist.lastS =
                            IF m.kind = "object" /\ m.s # 0 THEN m.s ELSE @]
    IN  IF m.kind # "object"
        THEN NotifyBegin(w1, "T", 10, "text.invalid")
        ELSE NotifyBegin(w1, "T", 0, "text.raw")

OnHelloBeginUnguarded(w) ==
    NotifyBegin(
        [w EXCEPT !.impl.awaitingHello = FALSE,
                  !.impl.heartbeatInterval =
                      w.thr["T"].msg.ms \div MillisecondsPerSecond,
                  !.hist.helloDropped = @ \/ ~w.impl.awaitingHello,
                  !.hist.helloFrom = w.thr["T"].sock,
                  !.hist.helloOn = w.impl.webSocket,
                  !.hist.helloLen =
                      IF w.impl.webSocket = 0 THEN 0
                      ELSE Len(w.sockets[w.impl.webSocket].textSent)],
        "T", 1, "hello.interval")

\* Lines 865-883.
OnHelloBegin(w) ==
    IF ~w.impl.awaitingHello
    THEN Return([w EXCEPT !.hist.helloDropped = TRUE], "T")
    ELSE NotifyBegin(
            [w EXCEPT !.impl.awaitingHello = FALSE,
                      !.impl.heartbeatInterval =
                          w.thr["T"].msg.ms \div MillisecondsPerSecond,
                      !.hist.helloFrom = w.thr["T"].sock,
                      !.hist.helloOn = w.impl.webSocket,
                      !.hist.helloLen =
                          IF w.impl.webSocket = 0 THEN 0
                          ELSE Len(w.sockets[w.impl.webSocket].textSent)],
            "T", 1, "hello.interval")

\* Lines 921-941: the dispatch on the opcode, up to the handler's first
\* diagnostic message.
OnTextDispatch(w) ==
    LET w1 == NotifyEnd(w, "T")
        op == w1.thr["T"].msg.op
    IN  CASE op = 1 -> NotifyBegin(w1, "T", 0, "hb.recv")
          [] op = 10 -> OnHelloBegin(w1)
          [] op = 11 -> NotifyBegin(w1, "T", 0, "ack.diag")
          [] OTHER -> NotifyBegin(w1, "T", 5, "text.unknown")

\* The tick that SendHeartbeat is about to cancel has already been taken
\* off the scheduler's queue and its callback waits for the mutex.
TickInFlight(w) ==
    /\ w.impl.heartbeatSchedulerToken # 0
    /\ w.thr["S"].pc = "due"
    /\ w.thr["S"].local = <<w.impl.heartbeatSchedulerToken>>

\* Lines 818-823.
OnHeartbeat(w) ==
    LET w1 == NotifyEnd(w, "T") IN
    IF SendHeartbeatSkips(w1)
    THEN Return(UnscheduleHeartbeat(w1), "T")
    ELSE SendHeartbeatBegin(
            [w1 EXCEPT !.hist.staleTick = @ \/ TickInFlight(w1)],
            "T", "hb.send")

\* Lines 830-835.
OnHeartbeatAck(w) ==
    Return([NotifyEnd(w, "T") EXCEPT !.impl.heartbeatAckReceived = TRUE], "T")

\* Lines 876-886.
OnHelloHeartbeat(w) ==
    LET w1 == NotifyEnd(w, "T") IN
    IF SendHeartbeatSkips(w1)
    THEN HelloSignal(UnscheduleHeartbeat(w1), "T")
    ELSE SendHeartbeatBegin(w1, "T", "hello.send")

\* Lines 886-890.
OnHelloEnd(w) ==
    LET w1 == SendHeartbeatEnd(w, "T")
        w2 == [w1 EXCEPT !.hist.helloHbOn = w.impl.webSocket,
                         !.hist.helloHbDue =
                             w.sched.now + w.impl.heartbeatInterval]
    IN  IF w1.hist.crashed THEN w1 ELSE HelloSignal(w2, "T")

OnHeartbeatDueNoPolicing(w, sync) ==
    LET w1 == [w EXCEPT !.impl.heartbeatSchedulerToken = 0,
                        !.hist.staleFired = @ \/ w.hist.staleTick,
                        !.hist.staleTick = FALSE] IN
    IF SendHeartbeatSkips(w1)
    THEN Return(UnscheduleHeartbeat(w1), "S")
    ELSE SendHeartbeatBegin(w1, "S", "hb.send")

\* The heartbeat frames the streams have received so far.
HeartbeatsSent(ss) ==
    Cardinality({<<s, i>> \in (DOMAIN ss) \X (1..(MaxOps + 2)) :
                    i <= Len(ss[s].textSent) /\ ss[s].textSent[i].op = 1})

\* Lines 838-858.
OnHeartbeatDue(w, sync) ==
    LET w1 == [w EXCEPT !.impl.heartbeatSchedulerToken = 0,
                        !.hist.staleFired = @ \/ w.hist.staleTick,
                        !.hist.staleTick = FALSE]
        w2 == [w1 EXCEPT !.hist.ackTimeout = TRUE,
                         !.hist.hbAtTimeout = HeartbeatsSent(w.sockets)]
    IN
    IF /\ ~w1.impl.heartbeatAckReceived
       /\ w1.impl.webSocket # 0
       /\ ~w1.impl.closed
    THEN IF WebSocketCloseThrows(w2, sync)
         THEN Throw(WebSocketClose(w2, CloseNoAck, sync), "S")
         ELSE OnCloseBegin(WebSocketClose(w2, CloseNoAck, sync), "S")
    ELSE IF SendHeartbeatSkips(w1)
         THEN Return(UnscheduleHeartbeat(w1), "S")
         ELSE SendHeartbeatBegin(w1, "S", "hb.send")

\* Lines 978-990.
RegisterDiagnosticMessageCallback(w) ==
    LET w1 == [w EXCEPT !.impl.onDiagnosticMessage = 1,
                        !.hist.producedAtRegistration =
                            IF w.impl.onDiagnosticMessage = 0
                            THEN w.hist.produced ELSE @]
    IN  IF w1.impl.storedDiagnosticMessages # <<>>
        THEN [w1 EXCEPT !.thr["R"].local = w.impl.storedDiagnosticMessages,
                        !.impl.storedDiagnosticMessages = <<>>,
                        !.thr["R"].pc = "flush"]
        ELSE w1

\* Lines 991-997.
RegisterDiagnosticMessageCallbackEnd(w) ==
    Return(Delivered(w, [i \in DOMAIN w.thr["R"].local |->
                                w.thr["R"].local[i].event]), "R")

\* ---------------------------------------------------------------- actions
Running == ~hist.crashed

\* A call of the public interface, or an event of a stream: one of at most
\* MaxOps in a behaviour.
CanCall == Running /\ hist.ops < MaxOps

Called(w) == [w EXCEPT !.hist.ops = @ + 1]

ConnectCall ==
    /\ CanCall
    /\ LET w == Connect(World) IN
        /\ w.hist.accepted <= MaxConnects
        /\ w.hist.rejected <= MaxRejected
        /\ Commit(Called(w))

SetSchedulerCall ==
    /\ CanCall
    /\ \E s \in Schedulers : Commit(Called(SetScheduler(World, s)))

WaitBeforeConnectCall ==
    /\ CanCall
    /\ impl.proceedWithConnect = "null"
    /\ Commit(Called(WaitBeforeConnect(World)))

\* The test's promise behind the WaitBeforeConnect future is satisfied.
ProceedWithConnect ==
    /\ Running
    /\ \/ /\ impl.proceedWithConnect = "pending"
          /\ impl' = [impl EXCEPT !.proceedWithConnect = "ready"]
          /\ UNCHANGED thr
       \/ /\ thr["W"].gate = "pending"
          /\ thr' = [thr EXCEPT !["W"].gate = "ready"]
          /\ UNCHANGED impl
    /\ UNCHANGED <<conn, sockets, sched, hist>>

WorkerStart ==
    /\ Running
    /\ thr["W"].pc = "start"
    /\ Commit(CompleteConnectStart(World))

WorkerProceed ==
    /\ Running
    /\ thr["W"].pc = "gate"
    /\ thr["W"].gate = "ready"
    /\ Commit(OpenCached(World))

WorkerOpen1 ==
    /\ Running
    /\ thr["W"].pc = "open1"
    /\ conn.wsr.state = "done"
    /\ Commit(CompleteConnectOpen1(World))

WorkerGet ==
    /\ Running
    /\ thr["W"].pc = "get"
    /\ conn.res.state = "done"
    /\ Commit(CompleteConnectGet(World))

WorkerOpen2 ==
    /\ Running
    /\ thr["W"].pc = "open2"
    /\ conn.wsr.state = "done"
    /\ Commit(CompleteConnectOpen2(World))

WorkerHello ==
    /\ Running
    /\ thr["W"].pc = "hello"
    /\ impl.helloPromise
    /\ Commit(CompleteConnectHello(World))

WorkerIdentify ==
    /\ Running
    /\ thr["W"].pc = "identify"
    /\ Commit(SendIdentify(World))

WorkerConnected ==
    /\ Running
    /\ thr["W"].pc = "connected"
    /\ Commit(CompleteConnectReturn(World))

\* MockConnections::RespondToResourceRequest.
RespondToResourceRequest ==
    /\ Running
    /\ conn.res.state = "pending"
    /\ \E status \in Statuses, body \in Bodies :
        conn' = [conn EXCEPT !.res = Response(status, body, 0)]
    /\ UNCHANGED <<impl, sockets, sched, thr, hist>>

\* The cancelled request completes with the sentinel status 499.
CompleteCancelledResourceRequest ==
    /\ Running
    /\ conn.res.state = "cancelled"
    /\ conn' = [conn EXCEPT !.res =
                    Response(StatusCancelled, [kind |-> "", url |-> ""], 0)]
    /\ UNCHANGED <<impl, sockets, sched, thr, hist>>

\* MockConnections::RespondToWebSocketRequest with a new stream.
RespondToWebSocketRequestOpened ==
    /\ Running
    /\ conn.wsr.state = "pending"
    /\ Len(sockets) < MaxSockets
    /\ sockets' = Append(sockets, NewSocket)
    /\ conn' = [conn EXCEPT !.wsr =
                    Response(0, [kind |-> "", url |-> ""], Len(sockets) + 1)]
    /\ UNCHANGED <<impl, sched, thr, hist>>

\* MockConnections::RespondToWebSocketRequest with nullptr.
RespondToWebSocketRequestFailed ==
    /\ Running
    /\ conn.wsr.state = "pending"
    /\ conn' = [conn EXCEPT !.wsr =
                    Response(0, [kind |-> "", url |-> ""], 0)]
    /\ UNCHANGED <<impl, sockets, sched, thr, hist>>

\* The cancelled open completes without a stream.
CompleteCancelledWebSocketRequest ==
    /\ Running
    /\ conn.wsr.state = "cancelled"
    /\ conn' = [conn EXCEPT !.wsr =
                    Response(0, [kind |-> "", url |-> ""], 0)]
    /\ UNCHANGED <<impl, sockets, sched, thr, hist>>

RegisterCloseCallbackCall ==
    /\ CanCall
    /\ Commit(Called(RegisterCloseCallback(World)))

RegisterDiagnosticMessageCallbackCall ==
    /\ CanCall
    /\ thr["R"].pc = "idle"
    /\ Commit(Called(RegisterDiagnosticMessageCallback(World)))

RegisterDiagnosticMessageCallbackFlush ==
    /\ Running
    /\ thr["R"].pc = "flush"
    /\ Commit(RegisterDiagnosticMessageCallbackEnd(World))

DisconnectCall ==
    /\ CanCall
    /\ thr["D"].pc = "idle"
    /\ \E sync \in BOOLEAN : Commit(Called(Disconnect(World, sync)))

DisconnectWait ==
    /\ Running
    /\ thr["D"].pc = "wait"
    /\ Commit(DisconnectWaited(World))

DisconnectTimeout ==
    /\ Running
    /\ thr["D"].pc = "timeout"
    /\ Commit(DisconnectTimedOut(World))

\* The stream s delivers a text message to its registered text handler.
DeliverText ==
    /\ CanCall
    /\ thr["T"].pc = "idle"
    /\ \E s \in DOMAIN sockets, m \in Messages :
        /\ sockets[s].registered
        /\ ~sockets[s].closeDelivered
        /\ Commit(Called(OnTextBegin(World, s, m)))

TextInvalid ==
    /\ Running
    /\ thr["T"].pc \in {"text.invalid", "text.unknown"}
    /\ Commit(Return(NotifyEnd(World, "T"), "T"))

TextDispatch ==
    /\ Running
    /\ thr["T"].pc = "text.raw"
    /\ Commit(OnTextDispatch(World))

HeartbeatRequested ==
    /\ Running
    /\ thr["T"].pc = "hb.recv"
    /\ Commit(OnHeartbeat(World))

HeartbeatSent ==
    /\ Running
    /\ \E t \in {"T", "S"} :
        /\ thr[t].pc = "hb.send"
        /\ LET w == SendHeartbeatEnd(World, t) IN
            Commit(IF w.hist.crashed THEN w ELSE Return(w, t))

HeartbeatAcked ==
    /\ Running
    /\ thr["T"].pc = "ack.diag"
    /\ Commit(OnHeartbeatAck(World))

HelloHeartbeat ==
    /\ Running
    /\ thr["T"].pc = "hello.interval"
    /\ Commit(OnHelloHeartbeat(World))

HelloDone ==
    /\ Running
    /\ thr["T"].pc = "hello.send"
    /\ Commit(OnHelloEnd(World))

\* The stream s delivers its close event to its registered close handler.
DeliverClose ==
    /\ CanCall
    /\ thr["T"].pc = "idle"
    /\ \E s \in DOMAIN sockets :
        /\ sockets[s].registered
        /\ ~sockets[s].closeDelivered
        /\ Commit(Called(OnCloseBegin(
                [World EXCEPT !.sockets[s].closeDelivered = TRUE], "T")))

CloseDiagnosed ==
    /\ Running
    /\ \E t \in {"T", "S"} :
        /\ thr[t].pc = "close.diag"
        /\ Commit(OnCloseNotify(World, t))

CloseNotified ==
    /\ Running
    /\ \E t \in {"T", "S"} :
        /\ thr[t].pc = "close.cb"
        /\ Commit(OnCloseEnd(World, t))

\* The scheduler takes a due callback off its queue and calls it.
HeartbeatFires ==
    /\ Running
    /\ thr["S"].pc = "idle"
    /\ \E p \in sched.pending :
        /\ p.at <= sched.now
        /\ sched' = [sched EXCEPT !.pending = @ \ {p}]
        /\ thr' = [thr EXCEPT !["S"].pc = "due", !["S"].local = <<p.token>>]
    /\ UNCHANGED <<impl, conn, sockets, hist>>

HeartbeatDue ==
    /\ Running
    /\ thr["S"].pc = "due"
    /\ \E sync \in BOOLEAN : Commit(OnHeartbeatDue(World, sync))

Tick ==
    /\ Running
    /\ sched.now < MaxTime
    /\ sched' = [sched EXCEPT !.now = @ + 1]
    /\ UNCHANGED <<impl, conn, sockets, thr, hist>>

Next ==
    \/ ConnectCall
    \/ SetSchedulerCall
    \/ WaitBeforeConnectCall
    \/ ProceedWithConnect
    \/ WorkerStart
    \/ WorkerProceed
    \/ WorkerOpen1
    \/ WorkerGet
    \/ WorkerOpen2
    \/ WorkerHello
    \/ WorkerIdentify
    \/ WorkerConnected
    \/ RespondToResourceRequest
    \/ CompleteCancelledResourceRequest
    \/ RespondToWebSocketRequestOpened
    \/ RespondToWebSocketRequestFailed
    \/ CompleteCancelledWebSocketRequest
    \/ RegisterCloseCallbackCall
    \/ RegisterDiagnosticMessageCallbackCall
    \/ RegisterDiagnosticMessageCallbackFlush
    \/ DisconnectCall
    \/ DisconnectWait
    \/ DisconnectTimeout
    \/ DeliverText
    \/ TextInvalid
    \/ TextDispatch
    \/ HeartbeatRequested
    \/ HeartbeatSent
    \/ HeartbeatAcked
    \/ HelloHeartbeat
    \/ HelloDone
    \/ DeliverClose
    \/ CloseDiagnosed
    \/ CloseNotified
    \/ HeartbeatFires
    \/ HeartbeatDue
    \/ Tick

Spec == Init /\ [][Next]_vars

\* CommonTextFixture::SetUp: every test starts with the scheduler set.
SetUp(w) == SetScheduler(w, 1)

InitSetUp ==
    /\ impl = SetUp(Constructed).impl
    /\ conn = SetUp(Constructed).conn
    /\ sockets = SetUp(Constructed).sockets
    /\ sched = SetUp(Constructed).sched
    /\ thr = SetUp(Constructed).thr
    /\ hist = SetUp(Constructed).hist

\* The life of the sessions alone: Connect, Disconnect, the transport's
\* answers and the texts of the streams, as the connection tests drive them.
NextSession ==
    \/ ConnectCall
    \/ WorkerStart
    \/ WorkerOpen1
    \/ WorkerGet
    \/ WorkerOpen2
    \/ WorkerHello
    \/ WorkerIdentify
    \/ WorkerConnected
    \/ RespondToResourceRequest
    \/ CompleteCancelledResourceRequest
    \/ RespondToWebSocketRequestOpened
    \/ RespondToWebSocketRequestFailed
    \/ CompleteCancelledWebSocketRequest
    \/ DisconnectCall
    \/ DisconnectWait
    \/ DisconnectTimeout
    \/ DeliverText
    \/ TextInvalid
    \/ TextDispatch
    \/ HeartbeatRequested
    \/ HeartbeatSent
    \/ HeartbeatAcked
    \/ HelloHeartbeat
    \/ HelloDone

SessionSpec == InitSetUp /\ [][NextSession]_vars

\* The tick expires only after the heartbeat it polices has been
\* acknowledged.
HeartbeatFiresAcked ==
    /\ impl.heartbeatAckReceived
    /\ HeartbeatFires

\* A session that neither the caller nor the remote end closes and whose
\* heartbeats the server acknowledges before the next tick expires: Connect,
\* the registration of the close callback, the answers of the transport,
\* the messages of the stream, the clock and the scheduler.
NextLive ==
    \/ RegisterCloseCallbackCall
    \/ ConnectCall
    \/ WorkerStart
    \/ WorkerGet
    \/ WorkerOpen2
    \/ WorkerHello
    \/ WorkerIdentify
    \/ WorkerConnected
    \/ RespondToResourceRequest
    \/ RespondToWebSocketRequestOpened
    \/ RespondToWebSocketRequestFailed
    \/ DeliverText
    \/ TextInvalid
    \/ TextDispatch
    \/ HeartbeatRequested
    \/ HeartbeatSent
    \/ HeartbeatAcked
    \/ HelloHeartbeat
    \/ HelloDone
    \/ CloseDiagnosed
    \/ CloseNotified
    \/ HeartbeatFiresAcked
    \/ HeartbeatDue
    \/ Tick

\* The threads of the controller, of the stream and of the scheduler go on
\* whenever they can.
LiveSpec ==
    /\ InitSetUp
    /\ [][NextLive]_vars
    /\ WF_vars(TextInvalid)
    /\ WF_vars(TextDispatch)
    /\ WF_vars(HeartbeatRequested)
    /\ WF_vars(HeartbeatSent)
    /\ WF_vars(HeartbeatAcked)
    /\ WF_vars(HelloHeartbeat)
    /\ WF_vars(HelloDone)
    /\ WF_vars(HeartbeatFiresAcked)
    /\ WF_vars(HeartbeatDue)
    /\ WF_vars(WorkerHello)
    /\ WF_vars(WorkerIdentify)
    /\ WF_vars(WorkerConnected)

\* The behaviours in which the calls of NotifyDiagnosticMessage are numbered
\* and the calls of the sink are recorded.
InitNumbered ==
    /\ impl = Constructed.impl
    /\ conn = Constructed.conn
    /\ sockets = Constructed.sockets
    /\ sched = Constructed.sched
    /\ thr = Constructed.thr
    /\ hist = [Constructed.hist EXCEPT !.numbered = TRUE]

DiagnosticsSpec == InitNumbered /\ [][Next]_vars

\* ----------------------------------------------------------------- claims
ReqIndex == DOMAIN hist.reqs

Gets(n) == {i \in 1..n : hist.reqs[i].kind = "GET"}

Opens(n) == {i \in 1..n : hist.reqs[i].kind = "OPEN"}

\* No thread is between OnClose's `closed = true' and its sample of onClose.
FunnelSampled == \A t \in {"T", "S"} : thr[t].pc # "close.diag"

\* C1: for one transition into Closed a registered close callback is invoked
\* exactly once: never twice, and once the funnel has sampled the callback
\* the callback that is registered has been invoked.
C1_CloseCallbackOncePerTransition ==
    \A cb \in DOMAIN hist.closeCalls :
        /\ hist.closeCalls[cb] <= 1
        /\ (impl.closed /\ impl.onClose = cb /\ FunnelSampled)
                => hist.closeCalls[cb] >= 1

\* C2: the Connect future is true only if this Connect opened a stream, a
\* Hello was received on that stream and the identify was sent on it.
C2_ConnectTrueOnlyWhenLive ==
    hist.result = "true" =>
        /\ hist.openSock # 0
        /\ hist.helloFrom = hist.openSock
        /\ hist.identifyOn = hist.openSock

\* C3: in the first Connect every stream-open request comes after exactly
\* one discovery GET; a Connect that follows a Connect whose open succeeded
\* issues the open on the cached URL plus suffix first, and no GET while
\* that open is unanswered.
C3_DiscoveryOnlyOnFirstConnect ==
    /\ hist.accepted = 1 =>
        /\ Cardinality(Gets(Len(hist.reqs))) <= 1
        /\ \A i \in Opens(Len(hist.reqs)) : Cardinality(Gets(i)) = 1
    /\ (hist.accepted >= 2 /\ hist.prevOpenOk /\ hist.reqs # <<>>) =>
        /\ hist.reqs[1].kind = "OPEN"
        /\ hist.cacheAtAccept \in Urls
        /\ hist.reqs[1].uri = hist.cacheAtAccept \o webSocketEndpointSuffix
        /\ hist.reqs[1].uri = hist.prevOkUri
        /\ hist.reqs[1].resp = "pending" => Len(hist.reqs) = 1

C3_Witness ==
    /\ hist.accepted = 2
    /\ hist.prevOpenOk
    /\ Len(hist.reqs) = 2
    /\ hist.reqs[1].kind = "OPEN"
    /\ hist.reqs[2].kind = "GET"

\* C4: when the latest stream open failed, the next Connect issues a
\* discovery GET before any stream-open request.
C4_DiscoveryAfterOpenFailure ==
    (hist.prevOpenFailed /\ hist.reqs # <<>>) => hist.reqs[1].kind = "GET"

\* The transport answered the open on the cached URL with no stream.
CachedOpenFailed ==
    /\ hist.reqs # <<>>
    /\ hist.reqs[1].kind = "OPEN"
    /\ hist.reqs[1].resp = "no_stream"
    /\ ~hist.reqs[1].cancelled

\* C5: within one Connect, when the open on the cached URL yields no stream
\* there is one discovery GET and, on a URL, one more open; the Connect is
\* true only if that open yields a stream, is false if it yields none, and
\* is false after a stream only if Disconnect was called.
C5_RediscoveryAfterCachedOpenFails ==
    CachedOpenFailed =>
        /\ Len(hist.reqs) \in {2, 3}
        /\ hist.reqs[2].kind = "GET"
        /\ (hist.reqs[2].resp = "url" /\ ~hist.reqs[2].cancelled)
                => (Len(hist.reqs) = 3 /\ hist.reqs[3].kind = "OPEN")
        /\ hist.result = "true" =>
                /\ Len(hist.reqs) = 3
                /\ hist.reqs[3].resp = "stream"
        /\ (Len(hist.reqs) = 3 /\ hist.reqs[3].resp = "no_stream")
                => hist.result = "false"
        /\ (Len(hist.reqs) = 3 /\ hist.reqs[3].resp = "stream"
                /\ hist.result = "false") => hist.discAt # "none"

C5_Witness ==
    /\ CachedOpenFailed
    /\ Len(hist.reqs) = 3
    /\ hist.reqs[3].resp = "stream"
    /\ hist.helloFrom = hist.openSock
    /\ hist.result = "true"

\* C6: when the discovery answer is not a 200 with a JSON object holding a
\* string url, the Connect is false and has issued no stream-open request.
C6_BadDiscoveryNoOpenAtAll ==
    \A i \in ReqIndex :
        (hist.reqs[i].kind = "GET" /\ hist.reqs[i].resp = "bad") =>
            /\ hist.result = "false"
            /\ Opens(Len(hist.reqs)) = {}

\* C6 as amended: when the discovery answer is bad, the Connect is false and
\* issues no stream-open request after the discovery request.
C6_BadDiscoveryNoOpenAfter ==
    \A i \in ReqIndex :
        (hist.reqs[i].kind = "GET" /\ hist.reqs[i].resp = "bad") =>
            /\ hist.result = "false"
            /\ i = Len(hist.reqs)

C6_Witness ==
    /\ Len(hist.reqs) = 2
    /\ hist.reqs[1].kind = "OPEN"
    /\ hist.reqs[2].resp = "bad"
    /\ ~hist.reqs[2].cancelled
    /\ hist.result = "false"

\* C7: a Connect called while a connection procedure is in flight or while
\* the controller holds a stream is rejected, and a rejected Connect changes
\* nothing of the controller, the transport, the streams or the threads.
C7_ConnectRejectedWhileBusy ==
    [][/\ (impl.connecting \/ impl.webSocket # 0)
            => hist'.accepted = hist.accepted
       /\ hist'.rejected # hist.rejected =>
            /\ impl.connecting \/ impl.webSocket # 0 \/ impl.scheduler = 0
            /\ UNCHANGED <<impl, conn, sockets, sched, thr>>
            /\ hist'.reqs = hist.reqs
            /\ hist'.result = hist.result]_vars

C7_Witness ==
    /\ hist.rejected = 1
    /\ impl.connecting
    /\ impl.scheduler # 0
    /\ impl.webSocket = 0

TransportAwaits == {"open1", "get", "open2"}

\* C8: when Disconnect is called while the procedure awaits the answer to a
\* discovery request or to a stream open, the cancel-callable of that
\* request has been invoked, the Connect issues no request and opens no
\* stream afterwards, it does not resolve true, and it is not left
\* unresolved for ever: where nothing can happen any more it is false.
C8_CancelledConnectResolvesFalse ==
    hist.discAt \in TransportAwaits =>
        /\ hist.reqs[hist.reqsAtDisc].cancelled
        /\ Len(hist.reqs) = hist.reqsAtDisc
        /\ ~hist.openOk
        /\ hist.result # "true"
        /\ ~ENABLED Next => hist.result = "false"

\* C9: when Disconnect is called before the procedure has passed the
\* WaitBeforeConnect gate, the Connect issues no transport request and is
\* false as soon as the procedure has passed the gate.
C9_DisconnectAtGate ==
    hist.discAt \in {"start", "gate"} =>
        /\ hist.reqs = <<>>
        /\ hist.result # "true"
        /\ thr["W"].pc \notin {"start", "gate"} => hist.result = "false"

C9_Witness ==
    /\ hist.discAt = "gate"
    /\ thr["W"].gate = "null"
    /\ hist.result = "false"

\* C10: a Connect during which Disconnect was called never resolves true.
C10_DisconnectedConnectIsFalse ==
    hist.discAt # "none" => hist.result # "true"

\* C11: after a Hello received while the session awaits Hello, the next
\* text frame sent on the stream the controller holds is a heartbeat, and on
\* every stream an identify frame comes after a heartbeat frame.
C11_HeartbeatFirstAfterHello ==
    /\ hist.helloOn # 0 =>
        (Len(sockets[hist.helloOn].textSent) > hist.helloLen
            => sockets[hist.helloOn].textSent[hist.helloLen + 1].op = 1)
    /\ \A s \in DOMAIN sockets : \A i \in DOMAIN sockets[s].textSent :
            sockets[s].textSent[i].op = 2
                => \E j \in 1..(i - 1) : sockets[s].textSent[j].op = 1

\* The calls of scenario S1 and no other: SetScheduler, Connect answered by
\* a discovery and a stream, the Hello of that stream; Connect is true.
DiscoveryThenOpen ==
    /\ hist.ops = 3
    /\ hist.accepted = 1
    /\ Len(hist.reqs) = 2
    /\ hist.reqs[1].kind = "GET"
    /\ hist.reqs[2].resp = "stream"
    /\ hist.helloFrom = hist.openSock
    /\ hist.result = "true"

FramesSent(ss) == [i \in DOMAIN ss |-> ss[i].textSent]

\* The scheduler's thread runs OnHeartbeatDue on a session that holds a
\* stream and is not closed.
TickExpiresOnOpenSession ==
    /\ thr["S"].pc = "due"
    /\ thr'["S"].pc # "due"
    /\ impl.webSocket # 0
    /\ ~impl.closed

\* C13: when the tick expires on an open session and the ack was received,
\* the handler sends one heartbeat and closes nothing; when the ack was not
\* received it sends no heartbeat and closes the stream, with code 4000.
C13_TickSendsOrCloses ==
    [][/\ TickExpiresOnOpenSession =>
            IF impl.heartbeatAckReceived
            THEN /\ thr'["S"].pc = "hb.send"
                 /\ FramesSent(sockets') = FramesSent(sockets)
                 /\ sockets'[impl.webSocket].closeCode
                        = sockets[impl.webSocket].closeCode
                 /\ ~impl'.closed
            ELSE /\ thr'["S"].pc # "hb.send"
                 /\ FramesSent(sockets') = FramesSent(sockets)
                 /\ sockets'[impl.webSocket].closeCode # 0
                 /\ sockets[impl.webSocket].closeCode = 0
                        => sockets'[impl.webSocket].closeCode = CloseNoAck
                 /\ impl'.closed
       /\ (thr["S"].pc = "hb.send" /\ thr'["S"].pc = "idle") =>
            /\ impl'.webSocket # 0
            /\ sockets'[impl'.webSocket].textSent
                    = Append(sockets[impl'.webSocket].textSent,
                             HeartbeatFrame(World))
            /\ \A s \in DOMAIN sockets : s # impl'.webSocket
                    => sockets'[s].textSent = sockets[s].textSent]_vars

C13_Witness ==
    /\ thr["S"].pc = "hb.send"
    /\ impl.webSocket # 0
    /\ sockets[impl.webSocket].closeCode = 0

\* C14: after an ack-timeout the session is Closed, the registered close
\* callback has fired once the handler is through, no heartbeat is sent any
\* more and no heartbeat tick is scheduled.
C14_NoHeartbeatAfterAckTimeout ==
    hist.ackTimeout =>
        /\ impl.closed
        /\ (thr["S"].pc = "idle" /\ impl.onClose # 0)
                => hist.closeCalls[impl.onClose] >= 1
        /\ HeartbeatsSent(sockets) = hist.hbAtTimeout
        /\ impl.heartbeatSchedulerToken = 0
        /\ sched.pending = {}

\* The handler of an inbound opcode-1 message reaches SendHeartbeat on a
\* session that holds a stream and is not closed.
HeartbeatRequestOnOpenSession ==
    /\ thr["T"].pc = "hb.recv"
    /\ thr'["T"].pc # "hb.recv"
    /\ impl.webSocket # 0
    /\ ~impl.closed

\* C15: an inbound opcode-1 message on an open stream cancels the pending
\* tick, sends exactly one heartbeat and, the interval being known, leaves
\* exactly one newly scheduled tick; the cancelled tick never fires.
C15_HeartbeatOnRequest ==
    [][/\ HeartbeatRequestOnOpenSession =>
            /\ thr'["T"].pc = "hb.send"
            /\ impl'.heartbeatSchedulerToken = 0
            /\ impl.heartbeatSchedulerToken \notin PendingTokens(World')
       /\ (thr["T"].pc = "hb.send" /\ thr'["T"].pc = "idle") =>
            /\ HeartbeatsSent(sockets') = HeartbeatsSent(sockets) + 1
            /\ (impl'.heartbeatInterval # 0 /\ ~impl'.closed) =>
                    /\ impl'.heartbeatSchedulerToken # 0
                    /\ PendingTokens(World')
                            = {impl'.heartbeatSchedulerToken}
       /\ ~hist'.staleFired]_vars

\* C16: a heartbeat frame reaches a stream only in the Hello handler, in the
\* handler of an inbound opcode 1, or in the callback of an expired tick; and
\* on the stream whose Hello has been answered with a heartbeat, the tick's
\* heartbeat is not sent before one heartbeat interval has passed since then.
C16_HeartbeatNotBeforeInterval ==
    [][HeartbeatsSent(sockets') > HeartbeatsSent(sockets) =>
        \/ thr["T"].pc = "hello.send" /\ thr'["T"] # thr["T"]
        \/ thr["T"].pc = "hb.send" /\ thr'["T"] # thr["T"]
        \/ /\ thr["S"].pc = "hb.send" /\ thr'["S"] # thr["S"]
           /\ hist.helloHbOn # 0 /\ hist.helloHbOn = impl.webSocket
                => sched.now >= hist.helloHbDue]_vars

\* C17: RegisterCloseCallback installs the new callback; when the controller
\* is closed at the call the new callback is invoked once before the call
\* returns, otherwise it is not invoked by the call; no other callback is
\* invoked by the call.
C17_RegisterCloseCallbackWhenClosed ==
    [][Len(hist'.closeCalls) = Len(hist.closeCalls) + 1 =>
        LET cb == Len(hist'.closeCalls) IN
        /\ impl'.onClose = cb
        /\ hist'.closeCalls[cb] = (IF impl.closed THEN 1 ELSE 0)
        /\ \A i \in DOMAIN hist.closeCalls :
                hist'.closeCalls[i] = hist.closeCalls[i]
        /\ impl'.closed = impl.closed]_vars

\* A callback registered before the close was called by the close funnel and
\* a second one, registered after it, by its registration.
C17_Witness ==
    /\ hist.transitions = 1
    /\ impl.closed
    /\ hist.closeCalls = <<1, 1>>
    /\ \A t \in Threads : thr[t].pc = "idle"

\* C18: a Disconnect called while the controller holds a stream calls
\* Close(1000) on that stream and goes on to wait for the close; when that
\* Disconnect returns the controller holds no stream, the scheduler has no
\* tick left, the heartbeat interval is 0 and no connect is in progress, so
\* that the next Connect is accepted.
C18_DisconnectClosesAndClears ==
    [][/\ (hist'.disconnects > hist.disconnects /\ impl.webSocket # 0) =>
            /\ sockets'[impl.webSocket].closeCode =
                    (IF sockets[impl.webSocket].closeCode = 0
                     THEN CloseNormal
                     ELSE sockets[impl.webSocket].closeCode)
            /\ thr'["D"].pc = "wait"
       /\ (thr["D"].pc \in {"wait", "timeout"} /\ thr'["D"].pc = "idle") =>
            /\ impl'.webSocket = 0
            /\ impl'.heartbeatSchedulerToken = 0
            /\ sched'.pending = {}
            /\ impl'.heartbeatInterval = 0
            /\ ~impl'.connecting]_vars

\* The events of a backlog are in the order of their production.
InOrderOfProduction(messages) ==
    \A i, j \in DOMAIN messages :
        i < j => messages[i].event < messages[j].event

\* C19: the backlog handed to the sink at its registration holds the
\* diagnostic messages in the order they were produced, and no message
\* produced after the first registration of a sink enters the backlog.
C19_BacklogFlushedInOrder ==
    /\ thr["R"].pc = "flush" => InOrderOfProduction(thr["R"].local)
    /\ impl.onDiagnosticMessage # 0 =>
            \A i \in DOMAIN impl.storedDiagnosticMessages :
                impl.storedDiagnosticMessages[i].event
                    <= hist.producedAtRegistration

\* C20: no diagnostic message reaches the sink twice; once a sink is
\* installed and its flush is over the backlog is empty; and when, with the
\* sink installed, no thread is at work any more, every message produced so
\* far has reached the sink.
C20_DiagnosticsExactlyOnce ==
    /\ \A i, j \in DOMAIN hist.delivered :
            i # j => hist.delivered[i] # hist.delivered[j]
    /\ (impl.onDiagnosticMessage # 0 /\ thr["R"].pc = "idle") =>
            impl.storedDiagnosticMessages = <<>>
    /\ (impl.onDiagnosticMessage # 0 /\ \A t \in Threads : thr[t].pc = "idle")
            => \A e \in 1..hist.produced :
                    \E i \in DOMAIN hist.delivered : hist.delivered[i] = e

\* C21: every heartbeat frame carries as d the sequence number of the most
\* recent inbound message that had one, and null exactly when no inbound
\* message has had one so far.
C21_HeartbeatCarriesLastSequence ==
    [][HeartbeatsSent(sockets') > HeartbeatsSent(sockets) =>
        \A k \in DOMAIN sockets :
            Len(sockets'[k].textSent) > Len(sockets[k].textSent) =>
                LET frame == sockets'[k].textSent[Len(sockets'[k].textSent)]
                IN  /\ frame.null = (hist.lastS = 0)
                    /\ ~frame.null => frame.d = hist.lastS]_vars

\* C22: no close callback and no diagnostic sink is ever called by a thread
\* that still owns the controller's mutex, also not when the close handler
\* of the stream runs inside Close(code).
C22_CallbacksOutsideLock == ~hist.lockedCalls

\* The phase of the session as the members of Impl tell it: a Disconnect
\* that has called Close and waits for closePromise is closing; closed is
\* set by OnClose alone, connecting from Connect to the end of ConnectAsync,
\* and a stream is held from the successful open on.
Phase ==
    IF thr["D"].pc # "idle" /\ impl.webSocket # 0 THEN "Closing"
    ELSE IF impl.closed THEN "Closed"
    ELSE IF impl.webSocket # 0 /\ impl.connecting THEN "AwaitingHello"
    ELSE IF impl.webSocket # 0 THEN "Live"
    ELSE IF impl.connecting THEN "Connecting"
    ELSE "Idle"

\* C23: the controller holds no stream when the session is Idle or Closed,
\* in particular once it has been closed by the remote end or by the missing
\* acknowledgement; and it holds no stream only when the session is Idle,
\* Closed or still Connecting.
C23_NoStreamWhenIdleOrClosed ==
    /\ Phase \in {"Idle", "Closed"} => impl.webSocket = 0
    /\ impl.webSocket = 0 => Phase \in {"Idle", "Closed", "Connecting"}

\* C24: whenever a heartbeat tick is scheduled (a token is held or a tick is
\* queued at the scheduler) a stream is held and not closed, its Hello has
\* been received and the heartbeat interval is positive: no tick while Idle,
\* Connecting, awaiting Hello or Closed. The tick a Disconnect in progress
\* has not cancelled yet is left out.
C24_TickOnlyWhenLive ==
    (impl.heartbeatSchedulerToken # 0 \/ sched.pending # {}) =>
        \/ Phase = "Closing"
        \/ /\ Phase \in {"Live", "AwaitingHello"}
           /\ ~impl.awaitingHello
           /\ impl.heartbeatInterval > 0

\* C25: at no time does the scheduler hold more than one heartbeat tick of
\* the controller.
C25_AtMostOneTickPending == Cardinality(sched.pending) <= 1

\* C26: a connect worker is started only by a Connect that finds no worker
\* in flight, and a worker is in flight exactly as long as connecting is
\* set: there is never more than one.
C26_OneWorkerAtATime ==
    [][/\ hist'.accepted > hist.accepted =>
            /\ thr["W"].pc = "idle"
            /\ ~impl.connecting
            /\ thr'["W"].pc = "start"
       /\ thr'["W"].pc # "idle" => impl'.connecting]_vars

\* A second worker runs after the first one has ended.
C26_Witness ==
    /\ hist.accepted = 2
    /\ thr["W"].pc \in {"open1", "get", "open2", "hello"}
    /\ hist.rejected = 1

\* C27: a Hello dispatched while awaitingHello is false ends the handler at
\* once: no frame is sent, the heartbeat interval, the token, the next
\* heartbeat time, the acknowledgement flag and the scheduler's queue stay
\* as they are and helloPromise is not touched. A Hello has an effect only
\* if awaitingHello was set, which it clears, and awaitingHello is set only
\* by the connect worker when it installs the handlers of a new stream.
C27_UnexpectedHelloDiscarded ==
    [][/\ (/\ thr["T"].pc = "text.raw" /\ thr["T"].msg.op = 10
           /\ thr'["T"] # thr["T"]
           /\ ~impl.awaitingHello) =>
                /\ thr'["T"].pc = "idle"
                /\ sockets' = sockets
                /\ sched' = sched
                /\ impl'.heartbeatInterval = impl.heartbeatInterval
                /\ impl'.heartbeatSchedulerToken = impl.heartbeatSchedulerToken
                /\ impl'.nextHeartbeatTime = impl.nextHeartbeatTime
                /\ impl'.heartbeatAckReceived = impl.heartbeatAckReceived
                /\ impl'.helloPromise = impl.helloPromise
                /\ impl'.awaitingHello = impl.awaitingHello
       /\ thr'["T"].pc = "hello.interval" /\ thr["T"].pc # "hello.interval"
            => impl.awaitingHello /\ ~impl'.awaitingHello
       /\ impl'.awaitingHello /\ ~impl.awaitingHello
            => thr'["W"].pc = "hello" /\ thr["W"].pc # "hello"]_vars

\* After the Hello of the connection has been answered, a second Hello has
\* been dropped.
C27_Witness ==
    /\ hist.helloDropped
    /\ hist.helloOn # 0
    /\ thr["T"].pc = "idle"
    /\ hist.result = "true"

\* C28: while the controller is closed, a close callback has been invoked
\* for the transition only if the level-1 diagnostic of that transition has
\* been handed to the sink or stored in the backlog.
C28_CloseDiagnosedBeforeCallback ==
    (impl.closed /\ \E cb \in DOMAIN hist.closeCalls : hist.closeCalls[cb] > 0)
        => hist.closeDiagnosed

\* C29: while a thread of the close funnel is inside the close callback,
\* closePromise is already satisfied, and a Disconnect that runs meanwhile
\* does not end its wait for closePromise by the timeout.
C29_CloseSignalBeforeCallback ==
    \A t \in {"T", "S"} :
        thr[t].pc = "close.cb" =>
            /\ impl.closePromise
            /\ thr["D"].pc # "timeout"

\* C30: outside the open of a freshly discovered URL, the endpoint cache
\* holds a URL only if a stream has been opened with that URL since
\* construction, and after a successful open it holds the URL of that open.
C30_CacheOnlyAfterSuccessfulOpen ==
    /\ (impl.webSocketEndpoint # "" /\ thr["W"].pc # "open2") =>
            (impl.webSocketEndpoint \o webSocketEndpointSuffix) \in hist.okUris
    /\ hist.openOk =>
            impl.webSocketEndpoint \o webSocketEndpointSuffix = hist.lastOkUri

\* C31: a URL held by the endpoint cache is dropped or replaced only after
\* the transport has answered an open on that very URL with no stream,
\* without the open having been cancelled; a Disconnect, also one that
\* cancels the connect in flight, leaves the cache as it is.
C31_CacheSurvivesDisconnect ==
    [][(impl.webSocketEndpoint # ""
            /\ impl'.webSocketEndpoint # impl.webSocketEndpoint) =>
        \E i \in DOMAIN hist'.reqs :
            /\ hist'.reqs[i].kind = "OPEN"
            /\ hist'.reqs[i].uri =
                    impl.webSocketEndpoint \o webSocketEndpointSuffix
            /\ hist'.reqs[i].resp = "no_stream"
            /\ ~hist'.reqs[i].cancelled]_vars

\* C32: SetScheduler takes the tick of the token it holds off the
\* scheduler; if a stream is held that is not closed and whose heartbeat
\* interval is known it queues exactly one tick, at nextHeartbeatTime, and
\* otherwise it queues nothing and holds no token.
C32_SetSchedulerReschedulesOnlyWhenLive ==
    [][hist'.schedulerSets > hist.schedulerSets =>
        LET rest == {p \in sched.pending :
                        p.token # impl.heartbeatSchedulerToken}
        IN  IF impl.webSocket # 0 /\ ~impl.closed
                /\ impl.heartbeatInterval > 0
            THEN /\ impl'.heartbeatSchedulerToken # 0
                 /\ sched'.pending = rest \cup
                        {[token |-> impl'.heartbeatSchedulerToken,
                          at |-> impl.nextHeartbeatTime]}
            ELSE /\ impl'.heartbeatSchedulerToken = 0
                 /\ sched'.pending = rest]_vars

\* C33: once a Connect that opened no stream has resolved false without a
\* Disconnect having been called, the session is Closed, and it is so in the
\* step that resolves the future.
C33_FailedConnectCloses ==
    [][(hist'.result = "false" /\ ~hist'.openOk /\ ~impl'.disconnect)
            => (impl'.closed /\ Phase' = "Closed")]_vars

\* C34: in a session that is not closed by the caller or the remote end and
\* whose heartbeats are acknowledged before the next tick expires, the
\* controller never closes a stream with code 4000, a session that has been
\* established is never closed, and every tick that expires brings the
\* scheduler's thread to send a heartbeat.
C34_AcknowledgedSessionStaysLive ==
    /\ [](\A k \in DOMAIN sockets : sockets[k].closeCode # CloseNoAck)
    /\ [](hist.result = "true" => ~impl.closed)
    /\ (thr["S"].pc = "due") ~> (thr["S"].pc = "hb.send")

\* C35: the step that sends a heartbeat while the heartbeat interval is
\* known leaves the tick of the token the controller holds queued at a time
\* later than now and no later than one interval after now.
C35_TickWithinOneInterval ==
    [][(HeartbeatsSent(sockets') > HeartbeatsSent(sockets)
            /\ impl'.heartbeatInterval > 0) =>
        /\ impl'.heartbeatSchedulerToken # 0
        /\ \E p \in sched'.pending :
            /\ p.token = impl'.heartbeatSchedulerToken
            /\ sched.now < p.at
            /\ p.at <= sched.now + impl'.heartbeatInterval]_vars

\* The requests of kind k the connect accepted last has issued so far.
RequestsOfKind(k) == {i \in DOMAIN hist.reqs : hist.reqs[i].kind = k}

\* C36: the connect accepted last has issued at most one discovery GET and
\* at most two stream-open requests, and of two opens the first precedes the
\* GET and the second follows it, whatever the transport answered.
C36_BoundedRequestsPerConnect ==
    /\ Cardinality(RequestsOfKind("GET")) <= 1
    /\ Cardinality(RequestsOfKind("OPEN")) <= 2
    /\ Cardinality(RequestsOfKind("OPEN")) = 2 =>
            /\ Len(hist.reqs) = 3
            /\ hist.reqs[2].kind = "GET"

C36_Witness ==
    /\ Len(hist.reqs) = 3
    /\ hist.reqs[1].kind = "OPEN" /\ hist.reqs[1].resp = "no_stream"
    /\ hist.reqs[2].kind = "GET"
    /\ hist.reqs[3].kind = "OPEN" /\ hist.reqs[3].resp = "no_stream"
    /\ hist.result = "false"

\* C37: helloPromise.set_value() is never called on a promise that is
\* already satisfied, neither by the Hello handler nor by the cancel-callable
\* Disconnect runs.
C37_HelloSignalSetOnce ==
    ~hist.helloSetTwice

\* C38: a step that sends a text frame sends it on the stream webSocket
\* refers to, in a session the close funnel has not closed; and no thread
\* sends a frame through a webSocket that Disconnect has set to null.
C38_FramesOnlyOnHeldOpenStream ==
    /\ [][\A k \in DOMAIN sockets :
            Len(sockets'[k].textSent) > Len(sockets[k].textSent) =>
                /\ impl.webSocket = k
                /\ ~impl.closed]_vars
    /\ [](hist.crashed => impl.webSocket # 0)

\* C39: while the controller holds a stream, an event of another stream
\* leaves the session as it is: the close event of another stream does not
\* set closed, and the handling of a text message of another stream changes
\* neither the acknowledgement flag, the heartbeat interval, awaitingHello
\* nor helloPromise and sends nothing on the stream held.
C39_StaleStreamEventsIgnored ==
    [][/\ \A s \in DOMAIN sockets :
            (/\ sockets'[s].closeDelivered /\ ~sockets[s].closeDelivered
             /\ impl.webSocket # 0
             /\ impl.webSocket # s)
                => (impl'.closed = impl.closed)
       /\ (/\ thr'["T"] # thr["T"]
           /\ thr["T"].sock # 0
           /\ impl.webSocket # 0
           /\ thr["T"].sock # impl.webSocket)
            => (/\ impl'.heartbeatAckReceived = impl.heartbeatAckReceived
                /\ impl'.heartbeatInterval = impl.heartbeatInterval
                /\ impl'.awaitingHello = impl.awaitingHello
                /\ impl'.helloPromise = impl.helloPromise
                /\ sockets'[impl.webSocket].textSent =
                        sockets[impl.webSocket].textSent)]_vars

\* The close funnel has run on a stream the controller holds and Disconnect
\* has not been called since.
ClosedNotDisconnected ==
    impl.closed /\ ~impl.disconnect /\ impl.webSocket # 0

\* The step in which a call of Disconnect returns.
DisconnectReturns ==
    /\ thr'["D"].pc = "idle"
    /\ thr["D"].pc # "idle" \/ hist'.disconnects > hist.disconnects

\* C40, as claimed: from the close of a session whose stream is held until
\* Disconnect is called the stream reference stays, no Connect is accepted
\* and no transport request is issued; and when the Disconnect called on
\* such a session returns, the conditions under which Connect is accepted
\* hold.
C40_ClosedSessionNeedsDisconnect ==
    [][/\ ClosedNotDisconnected =>
            /\ impl'.webSocket = impl.webSocket
            /\ hist'.accepted = hist.accepted
            /\ hist'.reqs = hist.reqs
       /\ (hist'.closedBeforeDisc /\ DisconnectReturns) =>
            /\ impl'.scheduler # 0
            /\ impl'.webSocket = 0
            /\ ~impl'.connecting]_vars

\* C40, for a session whose Connect has resolved: as above, the conditions
\* under which Connect is accepted holding at the return of a Disconnect
\* that was called on a closed session no worker is connecting.
C40_ResolvedClosedSessionNeedsDisconnect ==
    [][/\ ClosedNotDisconnected =>
            /\ impl'.webSocket = impl.webSocket
            /\ hist'.accepted = hist.accepted
            /\ hist'.reqs = hist.reqs
       /\ (/\ hist'.closedBeforeDisc
           /\ DisconnectReturns
           /\ hist.result # "pending") =>
            /\ impl'.scheduler # 0
            /\ impl'.webSocket = 0
            /\ ~impl'.connecting]_vars

C40_Witness ==
    /\ hist.closedBeforeDisc
    /\ hist.result = "true"
    /\ thr["D"].pc = "idle"
    /\ impl.disconnect
    /\ impl.webSocket = 0

====
